---- MODULE Spec2Model ----
(***************************************************************************)
(* wallet-demo: the polling block listener (internal/listener/listener.go). *)
(*                                                                         *)
(* One PollingListener, its Block Source (BlockFetcher), its Watch Set     *)
(* (storage.WatchStore), the reader of its event channel and the caller of *)
(* Stop.  The poll goroutine is modelled step by step: every call to the   *)
(* Block Source or the Watch Set and every push into the event channel is  *)
(* one step; the purely local statements between two such calls belong to  *)
(* the step that precedes them.  A Go select with several ready cases      *)
(* picks any of them, so wherever the context is cancelled and the channel *)
(* has room both the push and the ctx.Done branch are enabled.             *)
(***************************************************************************)
EXTENDS Integers, Sequences, FiniteSets, TLC

\* ----- bounds of the model -----
MaxBlock == 4        \* the Block Source serves block numbers 1..MaxBlock
MaxRewrites == 1     \* how often the Block Source replaces a block or drops its head
MaxRewinds == 1      \* how often the cursor is rewound by hand (test harness)
MaxDepth == 1        \* configured confirmation depths are 1..MaxDepth
EventsCap == 2       \* capacity of the event channel (100 in NewPollingListener)
MaxHeight == 14      \* the taller chain of SpecDepth: block numbers 1..MaxHeight
MaxLateTicks == 1    \* ticks that pollLoop's select may still pick once cancelled

\* ----- program constants -----
DefaultConfirmationDepth == 12

Network == "ETH"
Addrs == {"a"}                       \* addresses that may be watched
Blocks == 1..MaxBlock

VARIABLES
    \* Block Source (BlockFetcher) and Watch Set (WatchStore)
    head,            \* current chain head
    ver,             \* ver[n]: which content the source serves for block n
    rewrites,        \* number of replacements / head drops so far
    watch,           \* the watched addresses
    \* PollingListener fields
    cfg,             \* cfg.ConfirmationDepth
    lastBlock,       \* the cursor
    blockHashes,     \* Seen-Hash Window: block number -> hash
    pendingEvents,   \* Pending-Event Ledger: block number -> sequence of events
    events,          \* buffered content of the event channel
    eventsClosed,    \* close(l.events) has run
    done,            \* close(l.done) has run
    cancel,          \* l.cancel != nil
    ctxDone,         \* the context handed to pollLoop/poll is cancelled
    \* the poll goroutine
    pc,              \* where the goroutine stands
    latest,          \* poll: latest
    num,             \* poll: num, processBlock: number
    block,           \* processBlock: block
    addrSet,         \* processBlock: addrSet
    txi,             \* processBlock: index into block.Txs
    blockNum,        \* handleReorg / checkConfirmations: blockNum (0: none chosen)
    upTo,            \* handleReorg: upTo
    evi,             \* handleReorg / checkConfirmations: index into events
    \* the caller of Stop
    stopPc,
    \* history (not program state)
    hist,            \* every event accepted by the channel, in order
    expected,        \* (block, tx) pairs that matched the Watch Set when processed
    invalidated,     \* events pending for blocks >= B when the source replaced a processed B
    cycleStart,      \* cursor when the current / last cycle began
    pollResult,      \* how the last cycle ended
    failedAt,        \* block number whose fetch failed in the last cycle
    reorgOf,         \* the hash mismatch found while processing `num`: the block,
                     \* its ledger entry, Len(hist), the ledger and the highest
                     \* stored block number at that moment
    rewinds,         \* number of manual rewinds so far
    lateTicks,       \* number of ticks taken after the context was cancelled
    \* Manager fields and the engines (BlockListener) registered with it
    listeners,       \* Manager.listeners: network -> engine (NoEngine: no entry)
    nextEngine,      \* the next engine to be constructed
    engState,        \* per engine: "new", "started" or "stopped"
    engEvents,       \* per engine: buffered content of the channel behind Events()
    engClosed,       \* per engine: that channel is closed
    engWatch,        \* per engine: its Watch Set
    \* the caller of StartAll / StopAll and the draining goroutines
    mgrPc,           \* where the Manager's caller stands
    startVisited,    \* StartAll: networks the range has visited
    startAllErr,     \* StartAll: network whose Start failed ("" : none)
    stopVisited,     \* StopAll: networks the range has visited
    drainPc,         \* per engine: "none", "running" or "done"
    \* history (not program state)
    lastRegistered,  \* network -> engine of the latest RegisterListener call
    engPushed,       \* per engine: number of events pushed so far
    handled,         \* per engine: handler invocations in order: the event, the
                     \* handler's result, whether the channel was closed by then
    stopErrs,        \* networks whose Stop returned an error that was logged
    watchErr,        \* result of the last Manager.WatchAddress ("none" before)
    \* the engine's caller (history, not program state)
    configured,      \* the ConfirmationDepth handed to NewPollingListener
    lsnCall,         \* the last WatchAddress / UnwatchAddress call and its result,
                     \* the cursor and Len(hist) at the call, and whether a
                     \* block stood between L210 and L218 then
    \* Builder fields and its stores
    signers,         \* Builder.signers: the networks with a registered signer
    nonces,          \* MemoryNonceStore.nonces: address -> next nonce
    nonceMu,         \* MemoryNonceStore.mu: the Send call holding it (0: free)
    txStore,             \* MemoryTxStore.txStore: idempotency key -> transaction (NoTx: no entry)
    \* the Send calls
    calls,           \* per call: its request, its position, its locals, its result
    \* history (not program state)
    signedBy,        \* the calls that invoked signer.Sign
    broadcastBy,     \* the calls that broadcast their transaction
    before,          \* the stores and the history as the latest Send of a
                     \* one-at-a-time caller found them
    \* the engine's channels (history, not program state)
    eventsCloses,    \* number of times close(l.events) has run
    doneCloses,      \* number of times close(l.done) has run
    \* broadcastWithRetry over a broadcast that may fail
    retry            \* the call: maxRetries, its position, its locals, its
                     \* context, its result, whether Send has stored since;
                     \* history: the number of broadcasts, the last answer

srcVars == <<head, ver, rewrites, watch>>
lsnVars == <<cfg, lastBlock, blockHashes, pendingEvents, events, eventsClosed,
             done, cancel, ctxDone>>
pollVars == <<pc, latest, num, block, addrSet, txi, blockNum, upTo, evi>>
ghostVars == <<hist, expected, invalidated, cycleStart, pollResult, failedAt,
               reorgOf, rewinds, lateTicks>>
mgrVars == <<listeners, nextEngine, engState, engEvents, engClosed, engWatch,
             mgrPc, startVisited, startAllErr, stopVisited, drainPc,
             lastRegistered, engPushed, handled, stopErrs, watchErr>>
lsnAll == <<srcVars, lsnVars, pollVars, stopPc, ghostVars>>
callVars == <<configured, lsnCall>>
\* what no step of the engine changes, and what no step of the Manager changes
bldVars == <<signers, nonces, nonceMu, txStore, calls, signedBy, broadcastBy, before>>
notListener == <<mgrVars, callVars, bldVars, retry>>
closeVars == <<eventsCloses, doneCloses>>
notManager == <<lsnAll, closeVars, callVars, bldVars, retry>>
notBuilder == <<lsnAll, closeVars, mgrVars, callVars, retry>>
notRetry == <<lsnAll, closeVars, mgrVars, callVars, bldVars>>
vars == <<lsnAll, closeVars, mgrVars, callVars, bldVars, retry>>

\* ----- data -----
Max(S) == CHOOSE x \in S : \A y \in S : y <= x
Min(S) == CHOOSE x \in S : \A y \in S : x <= y

BlockTx(h, f, t, amt) == [Hash |-> h, From |-> f, To |-> t, Amount |-> amt]

\* Content the source serves for block n in version v.  Odd blocks carry three
\* transactions: one to "a" that keeps its hash across replacements, one that
\* touches no watchable address, one from "a" to "a" whose hash changes with the
\* replacement.  Even blocks carry one transaction that a replacement drops.
Txs(n, v) ==
    IF n % 2 = 1
    THEN << BlockTx(100 * n, "x", "a", 1), BlockTx(100 * n + 50, "x", "y", 2),
            BlockTx(100 * n + 1 + v, "a", "a", 3) >>
    ELSE IF v = 0 THEN << BlockTx(100 * n + 1, "a", "x", 4) >> ELSE << >>

BlockData(n, v) == [Number |-> n, Hash |-> <<n, v>>, Txs |-> Txs(n, v)]
NoBlock == [Number |-> 0, Hash |-> <<0, 0>>, Txs |-> << >>]

BlockEvent(number, tx) ==
    [Network |-> Network, BlockNumber |-> number, TxHash |-> tx.Hash,
     From |-> tx.From, To |-> tx.To, Amount |-> tx.Amount,
     Confirmed |-> FALSE, Reorged |-> FALSE]

\* maps with a changing key set
Put(m, k, v) == [x \in DOMAIN m \cup {k} |-> IF x = k THEN v ELSE m[x]]
Delete(m, k) == [x \in DOMAIN m \ {k} |-> m[x]]
EmptyMap == [x \in {} |-> 0]

\* faulty variant: the configured depth is used as given, zero included
NewPollingListener_nodefault(depth) == depth

\* NewPollingListener: the effective confirmation depth
NewPollingListener(depth) == IF depth = 0 THEN DefaultConfirmationDepth ELSE depth

\* ----- helpers of the poll goroutine -----
Matches(tx, set) == tx.To \in set \/ tx.From \in set

\* faulty variant: every transaction is taken, watched or not
NextMatch_unfiltered(txs, from, set) == Min({from, Len(txs) + 1})

\* processBlock L227-228: index of the next transaction at or after `from` that
\* matches, Len(txs)+1 when there is none
NextMatch(txs, from, set) ==
    Min({j \in from..Len(txs) : Matches(txs[j], set)} \cup {Len(txs) + 1})

\* processBlock L199-204: the highest block number with a stored hash
MaxStored(bh) == IF DOMAIN bh = {} THEN 0 ELSE Max(DOMAIN bh)

\* faulty variant: nothing is ever pruned
Prune_never(bh, number) == bh

\* processBlock L212-215: prune the hash that left the confirmation window
Prune(bh, number) ==
    IF number > cfg + 1 THEN Delete(bh, number - cfg - 1) ELSE bh

\* handleReorg L262-266: the next block number in from..to with a ledger entry
NextPending(pe, from, to) ==
    Min({b \in DOMAIN pe : from <= b /\ b <= to} \cup {to + 1})

\* faulty variant: only entries with an event of an address still watched
Eligible_watched(pe, currentBlock) ==
    {b \in DOMAIN pe : /\ currentBlock >= b + cfg
                       /\ \E i \in DOMAIN pe[b] : Matches(pe[b][i], watch)}

\* checkConfirmations L287-288: ledger entries deep enough to be confirmed
Eligible(pe, currentBlock) == {b \in DOMAIN pe : currentBlock >= b + cfg}

NoReorg == [block |-> 0, pending |-> << >>, at |-> 0, ledger |-> EmptyMap, upTo |-> 0]

Room == Len(events) < EventsCap /\ ~eventsClosed

\* `l.events <- ev` accepted by the channel
Push(ev) ==
    /\ events' = Append(events, ev)
    /\ hist' = Append(hist, ev)

\* locals of the goroutine
Locals(p, n, b, s, t) ==
    pc' = p /\ num' = n /\ block' = b /\ addrSet' = s /\ txi' = t
Loop(bn, u, e) == blockNum' = bn /\ upTo' = u /\ evi' = e

\* poll returns `res` to pollLoop (L158)
Return(res, failed) ==
    /\ Locals("returned", 0, NoBlock, {}, 1) /\ Loop(0, 0, 1)
    /\ pollResult' = res
    /\ failedAt' = failed
    /\ UNCHANGED reorgOf

\* poll L178-181: checkConfirmations(ctx, latest), then return nil
Sweep(pe, lat) ==
    IF Eligible(pe, lat) # {}
    THEN /\ Locals("sweep", 0, NoBlock, {}, 1) /\ Loop(0, 0, 1)
         /\ UNCHANGED <<pollResult, failedAt, reorgOf>>
    ELSE Return("nil", 0)

\* faulty variant: the loop goes on two blocks further
ForLoop_skipping(n, lat, pe) ==
    IF n + 1 <= lat
    THEN /\ Locals("getblock", n + 1, NoBlock, {}, 1) /\ Loop(0, 0, 1)
         /\ UNCHANGED <<pollResult, failedAt, reorgOf>>
    ELSE Sweep(pe, lat)

\* poll L172: the loop test for num = n
ForLoop(n, lat, pe) ==
    IF n <= lat
    THEN /\ Locals("getblock", n, NoBlock, {}, 1) /\ Loop(0, 0, 1)
         /\ UNCHANGED <<pollResult, failedAt, reorgOf>>
    ELSE Sweep(pe, lat)

\* processBlock L208-215, then on to watchStore.List; `cursor` is the value
\* assigned to l.lastBlock
StoreHashAs(bh, b, cursor) ==
    /\ blockHashes' = Prune(Put(bh, num, b.Hash), num)
    /\ lastBlock' = cursor
    /\ Locals("list", num, b, {}, 1) /\ Loop(0, 0, 1)

\* faulty variant: the cursor is left one block behind the hash just stored
StoreHash_cursorBehind(bh, b) == StoreHashAs(bh, b, num - 1)

StoreHash(bh, b) == StoreHashAs(bh, b, num)

\* ----- Block Source, Watch Set, reader -----
\* The goroutine reads the source's head only in LatestBlockNumber, block b only
\* in GetBlock(b) and the Watch Set only in List, and looks at the context only
\* in its selects, and the room in the channel only in its pushes.  A change of
\* one of them at any other moment cannot be told from the same change made
\* just before the next such read, so the actions of the environment are
\* enabled only in the states that precede the read.
ReadsHead == pc = "idle"
ReadsWatch == pc = "list"
Selects == pc \in {"idle", "reorg", "match", "sweep"}
Pushes == pc \in {"reorg", "match", "sweep"}
BetweenCycles == pc = "idle"

\* the events of the ledger entries for blocks >= b
PendingFrom(pe, b) ==
    UNION {{pe[k][i] : i \in DOMAIN pe[k]} : k \in {x \in DOMAIN pe : x >= b}}

unchangedBySource ==
    <<notListener, closeVars, watch, lsnVars, pollVars, stopPc, hist, expected, cycleStart, pollResult,
      failedAt, reorgOf, rewinds, lateTicks>>

\* a new block appears at the head, as long as the chain is below `limit`
SourceGrow(limit) ==
    /\ ReadsHead
    /\ head < limit
    /\ head' = head + 1
    /\ UNCHANGED <<ver, rewrites, invalidated, unchangedBySource>>

Source_Grow == SourceGrow(MaxBlock)

\* the source now serves other content (another hash) for block b
Source_Replace(b) ==
    /\ rewrites < MaxRewrites
    /\ BetweenCycles
    /\ b \in 1..head
    /\ ver' = [ver EXCEPT ![b] = @ + 1]
    /\ rewrites' = rewrites + 1
    /\ invalidated' = IF b <= lastBlock
                      THEN invalidated \cup PendingFrom(pendingEvents, b)
                      ELSE invalidated
    /\ UNCHANGED <<head, unchangedBySource>>

\* the source reports a lower head than before
Source_Drop ==
    /\ ReadsHead
    /\ rewrites < MaxRewrites
    /\ \E h \in 0..(head - 1) : head' = h
    /\ rewrites' = rewrites + 1
    /\ UNCHANGED <<ver, invalidated, unchangedBySource>>

WatchAddress(address) ==
    /\ ReadsWatch
    /\ watch' = watch \cup {address}
    /\ UNCHANGED <<notListener, closeVars, head, ver, rewrites, lsnVars, pollVars, stopPc, ghostVars>>

UnwatchAddress(address) ==
    /\ ReadsWatch
    /\ watch' = watch \ {address}
    /\ UNCHANGED <<notListener, closeVars, head, ver, rewrites, lsnVars, pollVars, stopPc, ghostVars>>

\* a reader takes the oldest buffered event from Events()
Recv ==
    /\ Pushes \/ pc = "exited"
    /\ events # << >>
    /\ events' = Tail(events)
    /\ UNCHANGED <<notListener, closeVars, srcVars, cfg, lastBlock, blockHashes, pendingEvents, eventsClosed,
                   done, cancel, ctxDone, pollVars, stopPc, ghostVars>>

\* ----- Start, Stop, cancellation -----
Start ==
    /\ pc = "new"
    /\ cancel' = TRUE
    /\ pc' = "idle"
    /\ UNCHANGED <<notListener, closeVars, srcVars, cfg, lastBlock, blockHashes, pendingEvents, events,
                   eventsClosed, done, ctxDone, latest, num, block, addrSet, txi,
                   blockNum, upTo, evi, stopPc, ghostVars>>

\* Stop L119-121
Stop_cancel ==
    /\ Selects
    /\ stopPc = "none"
    /\ stopPc' = "wait"
    /\ ctxDone' = (ctxDone \/ cancel)
    /\ UNCHANGED <<notListener, closeVars, srcVars, cfg, lastBlock, blockHashes, pendingEvents, events,
                   eventsClosed, done, cancel, pollVars, ghostVars>>

\* Stop L122-125: wait for `wait`, then close the event channel (`closes`)
StopClose(wait, closes) ==
    /\ stopPc = "wait"
    /\ wait
    /\ eventsClosed' = closes
    /\ eventsCloses' = IF closes THEN eventsCloses + 1 ELSE eventsCloses
    /\ stopPc' = "returned"
    /\ UNCHANGED <<notListener, doneCloses, srcVars, cfg, lastBlock, blockHashes, pendingEvents, events,
                   done, cancel, ctxDone, pollVars, ghostVars>>

\* faulty variants: Stop closes without waiting for l.done; Stop never closes
Stop_close_nowait == StopClose(TRUE, TRUE)
Stop_close_noclose == StopClose(done, FALSE)
Stop_close == StopClose(done, TRUE)

\* Stop L119-121 on an engine that Start was never called on: l.cancel is nil,
\* nothing is cancelled, and Stop goes on to wait for l.done
Stop_unstarted ==
    /\ pc = "new"
    /\ stopPc = "none"
    /\ stopPc' = "wait"
    /\ UNCHANGED <<notListener, closeVars, srcVars, lsnVars, pollVars, ghostVars>>

\* Stop called again after Stop has returned: cancel() has no effect, l.done is
\* closed so L122 passes, and L123 runs close(l.events) on the closed channel,
\* which panics
Stop_second ==
    /\ stopPc = "returned"
    /\ eventsCloses' = eventsCloses + 1
    /\ stopPc' = "panicked"
    /\ UNCHANGED <<notListener, doneCloses, srcVars, lsnVars, pollVars, ghostVars>>

\* the owner of the context handed to poll cancels it (listener_test.go L122)
Context_cancel ==
    /\ Pushes
    /\ ~ctxDone
    /\ ctxDone' = TRUE
    /\ UNCHANGED <<notListener, closeVars, srcVars, cfg, lastBlock, blockHashes, pendingEvents, events,
                   eventsClosed, done, cancel, pollVars, stopPc, ghostVars>>

\* pollLoop L155-156 with the deferred close(l.done)
pollLoop_ctxDone ==
    /\ pc = "idle"
    /\ cancel
    /\ ctxDone
    /\ pc' = "exited"
    /\ done' = TRUE
    /\ doneCloses' = doneCloses + 1
    /\ UNCHANGED <<notListener, eventsCloses, srcVars, cfg, lastBlock, blockHashes, pendingEvents, events,
                   eventsClosed, cancel, ctxDone, latest, num, block, addrSet, txi,
                   blockNum, upTo, evi, stopPc, ghostVars>>

\* ----- the poll cycle -----
\* what no step of the poll goroutine changes
pollFixed ==
    <<notListener, closeVars, srcVars, cfg, eventsClosed, done, cancel, ctxDone, stopPc, rewinds, lateTicks>>

tickFixed == <<notListener, closeVars, srcVars, cfg, eventsClosed, done, cancel, ctxDone, stopPc, rewinds>>

Entry(pe, number) == IF number \in DOMAIN pe THEN pe[number] ELSE << >>

\* pollLoop L154-157: the select picks the ticker
Tick ==
    /\ pc = "idle"
    /\ ctxDone => lateTicks < MaxLateTicks
    /\ lateTicks' = IF ctxDone THEN lateTicks + 1 ELSE lateTicks

\* pollLoop L158-161: poll has returned, its error is logged, back to the select
pollLoop_next ==
    /\ pc = "returned"
    /\ pc' = "idle"
    /\ pollResult' = "none"
    /\ failedAt' = 0
    /\ cycleStart' = 0
    /\ reorgOf' = NoReorg
    /\ UNCHANGED <<pollFixed, latest, num, block, addrSet, txi, blockNum, upTo, evi,
                   lastBlock, blockHashes, pendingEvents, events, hist, expected,
                   invalidated>>

\* pollLoop L157-158 and poll L166-172: the ticker fires (or poll is called
\* directly) and LatestBlockNumber answers
poll_LatestBlockNumber ==
    /\ Tick
    /\ latest' = head
    /\ cycleStart' = lastBlock
    /\ ForLoop(lastBlock + 1, head, pendingEvents)
    /\ UNCHANGED <<tickFixed, lastBlock, blockHashes, pendingEvents, events, hist,
                   expected, invalidated>>

\* poll L166-169: LatestBlockNumber fails
poll_LatestBlockNumberErr ==
    /\ Tick
    /\ cycleStart' = lastBlock
    /\ Return("latest", 0)
    /\ UNCHANGED <<tickFixed, latest, lastBlock, blockHashes, pendingEvents, events,
                   hist, expected, invalidated>>

\* processBlock L185-188: GetBlock fails; `cursor` is the cursor it leaves
ProcessBlockGetBlockErr(cursor) ==
    /\ pc = "getblock"
    /\ lastBlock' = cursor
    /\ Return("getblock", num)
    /\ UNCHANGED <<pollFixed, latest, blockHashes, pendingEvents, events, hist,
                   expected, invalidated, cycleStart>>

\* faulty variant: the cursor moves to the block whose fetch failed
processBlock_GetBlockErr_advancing == ProcessBlockGetBlockErr(num)
\* faulty variant: the cursor is put back to where the cycle began
processBlock_GetBlockErr_rollback == ProcessBlockGetBlockErr(cycleStart)
processBlock_GetBlockErr == ProcessBlockGetBlockErr(lastBlock)

\* processBlock L185-215: GetBlock answers; reorg detection (when `check`), the
\* call of handleReorg up to its first push, or L208-215 when it pushes nothing
ProcessBlockGetBlock(check) ==
    /\ pc = "getblock"
    /\ LET b == BlockData(num, ver[num])
           differs == num \in DOMAIN blockHashes /\ blockHashes[num] # b.Hash
           detected == check /\ differs
           maxStored == MaxStored(blockHashes)
           first == NextPending(pendingEvents, num, maxStored)
       IN  /\ reorgOf' = IF differs
                         THEN [block |-> num, pending |-> Entry(pendingEvents, num),
                               at |-> Len(hist), ledger |-> pendingEvents,
                               upTo |-> maxStored]
                         ELSE NoReorg
           /\ IF detected /\ first <= maxStored
              THEN /\ Locals("reorg", num, b, {}, 1) /\ Loop(first, maxStored, 1)
                   /\ UNCHANGED <<blockHashes, lastBlock>>
              ELSE StoreHash(blockHashes, b)
    /\ UNCHANGED <<pollFixed, latest, pendingEvents, events, hist, expected,
                   invalidated, cycleStart, pollResult, failedAt>>

\* faulty variant: the fetched hash is not compared with the stored one
processBlock_GetBlock_nodetect == ProcessBlockGetBlock(FALSE)
processBlock_GetBlock == ProcessBlockGetBlock(TRUE)

\* handleReorg L267-282: push the next event of the entry as reorged; after the
\* last one delete the entry and its hash and go on to the next entry, or return
handleReorg_emit ==
    /\ pc = "reorg"
    /\ Room
    /\ LET evs == pendingEvents[blockNum]
           ev == [evs[evi] EXCEPT !.Reorged = TRUE, !.Confirmed = FALSE]
       IN  /\ Push(ev)
           /\ IF evi < Len(evs)
              THEN /\ Locals("reorg", num, block, {}, 1) /\ Loop(blockNum, upTo, evi + 1)
                   /\ UNCHANGED <<pendingEvents, blockHashes, lastBlock>>
              ELSE LET pe == Delete(pendingEvents, blockNum)
                       bh == Delete(blockHashes, blockNum)
                       nxt == NextPending(pe, blockNum + 1, upTo)
                   IN  /\ pendingEvents' = pe
                       /\ IF nxt <= upTo
                          THEN /\ Locals("reorg", num, block, {}, 1) /\ Loop(nxt, upTo, 1)
                               /\ blockHashes' = bh
                               /\ UNCHANGED lastBlock
                          ELSE StoreHash(bh, block)
    /\ UNCHANGED <<pollFixed, latest, expected, invalidated, cycleStart, pollResult,
                   failedAt, reorgOf>>

\* handleReorg L276-277: cancelled, return; processBlock goes on at L208
handleReorg_ctxDone ==
    /\ pc = "reorg"
    /\ ctxDone
    /\ StoreHash(blockHashes, block)
    /\ UNCHANGED <<pollFixed, latest, pendingEvents, events, hist, expected,
                   invalidated, cycleStart, pollResult, failedAt, reorgOf>>

MatchedPairs(b, set) ==
    {[BlockNumber |-> b.Number, TxHash |-> b.Txs[j].Hash] :
        j \in {k \in 1..Len(b.Txs) : Matches(b.Txs[k], set)}}

\* processBlock L218-228: List answers; on to the first matching transaction
processBlock_List ==
    /\ pc = "list"
    /\ expected' = expected \cup MatchedPairs(block, watch)
    /\ LET t == NextMatch(block.Txs, 1, watch)
       IN  IF t <= Len(block.Txs)
           THEN /\ Locals("match", num, block, watch, t) /\ Loop(0, 0, 1)
                /\ UNCHANGED <<pollResult, failedAt, reorgOf>>
           ELSE ForLoop(num + 1, latest, pendingEvents)
    /\ UNCHANGED <<pollFixed, latest, lastBlock, blockHashes, pendingEvents, events,
                   hist, invalidated, cycleStart>>

\* processBlock L218-221: List fails
processBlock_ListErr ==
    /\ pc = "list"
    /\ expected' = expected \cup MatchedPairs(block, watch)
    /\ Return("list", 0)
    /\ UNCHANGED <<pollFixed, latest, lastBlock, blockHashes, pendingEvents, events,
                   hist, invalidated, cycleStart>>

\* processBlock L229-253: the event of transaction txi is appended to the ledger
\* under `key` and pushed; on to the next matching transaction or the next block
ProcessBlockEmit(key) ==
    /\ pc = "match"
    /\ Room
    /\ LET ev == BlockEvent(num, block.Txs[txi])
           pe == Put(pendingEvents, key, Append(Entry(pendingEvents, key), ev))
           t == NextMatch(block.Txs, txi + 1, addrSet)
       IN  /\ pendingEvents' = pe
           /\ Push(ev)
           /\ IF t <= Len(block.Txs)
              THEN /\ Locals("match", num, block, addrSet, t) /\ Loop(0, 0, 1)
                   /\ UNCHANGED <<pollResult, failedAt, reorgOf>>
              ELSE ForLoop(num + 1, latest, pe)
    /\ UNCHANGED <<pollFixed, latest, lastBlock, blockHashes, expected, invalidated,
                   cycleStart>>

\* faulty variant: the event is filed under the next block number
processBlock_emit_wrongkey == ProcessBlockEmit(num + 1)
processBlock_emit == ProcessBlockEmit(num)

\* processBlock L239, L250-251: the event is appended, the push is abandoned
ProcessBlockCtxDone(cancelled) ==
    /\ pc = "match"
    /\ cancelled
    /\ pendingEvents' = Put(pendingEvents, num,
                            Append(Entry(pendingEvents, num), BlockEvent(num, block.Txs[txi])))
    /\ Return("ctx", 0)
    /\ UNCHANGED <<pollFixed, latest, lastBlock, blockHashes, events, hist, expected,
                   invalidated, cycleStart>>

\* faulty variant: a plain `l.events <- event` that ignores the context
processBlock_blocking == ProcessBlockCtxDone(FALSE)
processBlock_ctxDone == ProcessBlockCtxDone(ctxDone)

\* checkConfirmations L287-303: some eligible entry (Go ranges over the map in
\* any order); its next event is pushed as confirmed, and the entry is deleted
\* after its last event (`wholeEntry`)
CheckConfirmationsEmit(wholeEntry) ==
    /\ pc = "sweep"
    /\ Room
    /\ \E b \in (IF blockNum = 0 THEN Eligible(pendingEvents, latest) ELSE {blockNum}) :
         LET evs == pendingEvents[b]
             ev == [evs[evi] EXCEPT !.Confirmed = TRUE]
         IN  /\ Push(ev)
             /\ IF wholeEntry /\ evi < Len(evs)
                THEN /\ Locals("sweep", 0, NoBlock, {}, 1) /\ Loop(b, 0, evi + 1)
                     /\ UNCHANGED <<pendingEvents, pollResult, failedAt, reorgOf>>
                ELSE LET pe == Delete(pendingEvents, b)
                     IN  pendingEvents' = pe /\ Sweep(pe, latest)
    /\ UNCHANGED <<pollFixed, latest, lastBlock, blockHashes, expected, invalidated,
                   cycleStart>>

\* faulty variant: the entry is deleted after its first event
checkConfirmations_emit_early == CheckConfirmationsEmit(FALSE)
checkConfirmations_emit == CheckConfirmationsEmit(TRUE)

\* checkConfirmations L298-299: cancelled, return; poll returns nil
checkConfirmations_ctxDone ==
    /\ pc = "sweep"
    /\ ctxDone
    /\ Return("nil", 0)
    /\ UNCHANGED <<pollFixed, latest, lastBlock, blockHashes, pendingEvents, events,
                   hist, expected, invalidated, cycleStart>>

\* the test harness assigns a lower value to l.lastBlock between two polls
Rewind ==
    /\ pc = "idle"
    /\ rewinds < MaxRewinds
    /\ \E n \in 0..(lastBlock - 1) : lastBlock' = n
    /\ rewinds' = rewinds + 1
    /\ UNCHANGED <<notListener, closeVars, srcVars, cfg, blockHashes, pendingEvents, events, eventsClosed,
                   done, cancel, ctxDone, pollVars, stopPc, hist, expected,
                   invalidated, cycleStart, pollResult, failedAt, reorgOf, lateTicks>>

\* ----- Manager (listener.go L307-368) over engines implementing BlockListener -----
MaxEngines == 3
MaxPushes == 2
MaxWatchCalls == 2
Networks == {"BTC", "ETH"}
Engines == 1..MaxEngines
NoEngine == 0
NoCall == [n |-> 0, network |-> "", address |-> "", err |-> FALSE]

NewManager ==
    /\ listeners = [n \in Networks |-> NoEngine]
    /\ nextEngine = 1
    /\ engState = [e \in Engines |-> "new"]
    /\ engEvents = [e \in Engines |-> << >>]
    /\ engClosed = [e \in Engines |-> FALSE]
    /\ engWatch = [e \in Engines |-> {}]
    /\ mgrPc = "setup"
    /\ startVisited = {} /\ startAllErr = "" /\ stopVisited = {}
    /\ drainPc = [e \in Engines |-> "none"]
    /\ lastRegistered = [n \in Networks |-> NoEngine]
    /\ engPushed = [e \in Engines |-> 0]
    /\ handled = [e \in Engines |-> << >>]
    /\ stopErrs = {}
    /\ watchErr = NoCall

\* the keys of m.listeners
Registered == {n \in Networks : listeners[n] # NoEngine}

\* m.listeners[network] = listener, for a listener constructed for this call
Register(network, overwrite) ==
    /\ mgrPc = "setup"
    /\ nextEngine <= MaxEngines
    /\ listeners' = [listeners EXCEPT
                       ![network] = IF overwrite \/ @ = NoEngine THEN nextEngine ELSE @]
    /\ lastRegistered' = [lastRegistered EXCEPT ![network] = nextEngine]
    /\ nextEngine' = nextEngine + 1
    /\ UNCHANGED <<notManager, engState, engEvents, engClosed, engWatch, mgrPc,
                   startVisited, startAllErr, stopVisited, drainPc, engPushed,
                   handled, stopErrs, watchErr>>

\* faulty variant: a second registration for a network does not replace the first
RegisterListener_keepfirst(network) == Register(network, FALSE)

RegisterListener(network) == Register(network, TRUE)

\* Manager.WatchAddress; the engine's WatchAddress adds to its own Watch Set
Manager_WatchAddress(network, address) ==
    /\ mgrPc \in {"setup", "running"}
    /\ watchErr.n < MaxWatchCalls
    /\ LET l == listeners[network]
           ok == l # NoEngine
       IN  /\ engWatch' = IF ok THEN [engWatch EXCEPT ![l] = @ \cup {address}]
                          ELSE engWatch
           /\ watchErr' = [n |-> watchErr.n + 1, network |-> network,
                           address |-> address, err |-> ~ok]
    /\ UNCHANGED <<notManager, listeners, nextEngine, engState, engEvents, engClosed,
                   mgrPc, startVisited, startAllErr, stopVisited, drainPc,
                   lastRegistered, engPushed, handled, stopErrs>>

\* the caller enters StartAll
StartAll_begin ==
    /\ mgrPc = "setup"
    /\ mgrPc' = "startAll"
    /\ UNCHANGED <<notManager, listeners, nextEngine, engState, engEvents, engClosed,
                   engWatch, startVisited, startAllErr, stopVisited, drainPc,
                   lastRegistered, engPushed, handled, stopErrs, watchErr>>

\* one iteration of StartAll's range: listener.Start, then either the return of
\* the error or the go statement of the draining goroutine
StartAllStart(network, returns) ==
    /\ mgrPc = "startAll"
    /\ network \in Registered \ startVisited
    /\ LET l == listeners[network] IN
       \E err \in BOOLEAN :
          IF err
          THEN /\ startAllErr' = network
               /\ mgrPc' = IF returns THEN "running" ELSE mgrPc
               /\ startVisited' = IF returns THEN startVisited
                                  ELSE startVisited \cup {network}
               /\ UNCHANGED <<engState, drainPc>>
          ELSE /\ engState' = [engState EXCEPT ![l] = "started"]
               /\ drainPc' = [drainPc EXCEPT ![l] = "running"]
               /\ startVisited' = startVisited \cup {network}
               /\ UNCHANGED <<mgrPc, startAllErr>>
    /\ UNCHANGED <<notManager, listeners, nextEngine, engEvents, engClosed, engWatch,
                   stopVisited, lastRegistered, engPushed, handled, stopErrs,
                   watchErr>>

\* faulty variant: a failed Start is noted and the range goes on
StartAll_Start_continuing(network) == StartAllStart(network, FALSE)

StartAll_Start(network) == StartAllStart(network, TRUE)

\* the range is exhausted: StartAll returns nil
StartAll_return ==
    /\ mgrPc = "startAll"
    /\ startVisited = Registered
    /\ mgrPc' = "running"
    /\ UNCHANGED <<notManager, listeners, nextEngine, engState, engEvents, engClosed,
                   engWatch, startVisited, startAllErr, stopVisited, drainPc,
                   lastRegistered, engPushed, handled, stopErrs, watchErr>>

\* a started engine pushes its next event into its channel
Engine_push(e) ==
    /\ engState[e] = "started"
    /\ ~engClosed[e]
    /\ engPushed[e] < MaxPushes
    /\ Len(engEvents[e]) < EventsCap
    /\ engEvents' = [engEvents EXCEPT ![e] = Append(@, engPushed[e] + 1)]
    /\ engPushed' = [engPushed EXCEPT ![e] = @ + 1]
    /\ UNCHANGED <<notManager, listeners, nextEngine, engState, engClosed, engWatch,
                   mgrPc, startVisited, startAllErr, stopVisited, drainPc,
                   lastRegistered, handled, stopErrs, watchErr>>

\* the draining goroutine: one iteration of `for event := range l.Events()`,
\* the handler returning nil or an error
DrainHandle(e, at, goesOn) ==
    /\ drainPc[e] = "running"
    /\ engEvents[e] # << >>
    /\ LET q == engEvents[e]
           i == IF at = "head" THEN 1 ELSE Len(q)
       IN  \E err \in BOOLEAN :
             /\ engEvents' = [engEvents EXCEPT
                                ![e] = SubSeq(q, 1, i - 1) \o SubSeq(q, i + 1, Len(q))]
             /\ handled' = [handled EXCEPT
                              ![e] = Append(@, [event |-> q[i], err |-> err,
                                                afterClose |-> engClosed[e]])]
             /\ drainPc' = [drainPc EXCEPT
                              ![e] = IF err /\ ~goesOn THEN "done" ELSE @]
    /\ UNCHANGED <<notManager, listeners, nextEngine, engState, engClosed, engWatch,
                   mgrPc, startVisited, startAllErr, stopVisited, lastRegistered,
                   engPushed, stopErrs, watchErr>>

\* faulty variant: the goroutine takes the newest buffered event
Drain_handle_newest(e) == DrainHandle(e, "last", TRUE)

\* faulty variant: the goroutine ends at the first handler error
Drain_handle_stopOnError(e) == DrainHandle(e, "head", FALSE)

Drain_handle(e) == DrainHandle(e, "head", TRUE)

\* the range over the channel ends: closed and nothing buffered
DrainExit(e, exhausted) ==
    /\ drainPc[e] = "running"
    /\ engClosed[e]
    /\ exhausted => engEvents[e] = << >>
    /\ drainPc' = [drainPc EXCEPT ![e] = "done"]
    /\ UNCHANGED <<notManager, listeners, nextEngine, engState, engEvents, engClosed,
                   engWatch, mgrPc, startVisited, startAllErr, stopVisited,
                   lastRegistered, engPushed, handled, stopErrs, watchErr>>

\* faulty variant: the range ends at the close, whatever is still buffered
Drain_exit_onClose(e) == DrainExit(e, FALSE)

Drain_exit(e) == DrainExit(e, TRUE)

\* the caller enters StopAll
StopAll_begin ==
    /\ mgrPc = "running"
    /\ mgrPc' = "stopAll"
    /\ UNCHANGED <<notManager, listeners, nextEngine, engState, engEvents, engClosed,
                   engWatch, startVisited, startAllErr, stopVisited, drainPc,
                   lastRegistered, engPushed, handled, stopErrs, watchErr>>

\* one iteration of StopAll's range: listener.Stop. Stop returns once the
\* engine's loop has exited (L123), which a never started engine's loop never
\* does; it closes the channel (L124); the interface lets it return an error,
\* and what an engine has done when it returns one is not known
StopAllStop(network, goesOn) ==
    /\ mgrPc = "stopAll"
    /\ network \in Registered \ stopVisited
    /\ LET l == listeners[network] IN
       /\ engState[l] = "started"
       /\ \E err \in BOOLEAN : \E closes \in {TRUE} \cup {c \in {FALSE} : err} :
            /\ engState' = [engState EXCEPT ![l] = IF closes THEN "stopped" ELSE @]
            /\ engClosed' = [engClosed EXCEPT ![l] = closes]
            /\ stopErrs' = IF err THEN stopErrs \cup {network} ELSE stopErrs
            /\ mgrPc' = IF err /\ ~goesOn THEN "stopped" ELSE mgrPc
    /\ stopVisited' = stopVisited \cup {network}
    /\ UNCHANGED <<notManager, listeners, nextEngine, engEvents, engWatch,
                   startVisited, startAllErr, drainPc, lastRegistered, engPushed,
                   handled, watchErr>>

\* faulty variant: StopAll returns at the first Stop error
StopAll_Stop_aborting(network) == StopAllStop(network, FALSE)

StopAll_Stop(network) == StopAllStop(network, TRUE)

\* the range is exhausted: StopAll returns
StopAll_return ==
    /\ mgrPc = "stopAll"
    /\ stopVisited = Registered
    /\ mgrPc' = "stopped"
    /\ UNCHANGED <<notManager, listeners, nextEngine, engState, engEvents, engClosed,
                   engWatch, startVisited, startAllErr, stopVisited, drainPc,
                   lastRegistered, engPushed, handled, stopErrs, watchErr>>

\* ----- Builder (tx/builder.go) over MemoryNonceStore and MemoryTxStore -----
\* A transaction is the object Send allocates (L86): `ptr` is the call that
\* allocated it, so two transactions with equal fields stay two objects.
\* The in-memory stores return no errors; signer.Sign may.
MaxCalls == 3
Calls == 1..MaxCalls
Keys == {"k1", "k2"}
Senders == {"f1", "f2"}
NoNonce == -1
NoTx == [Network |-> "", From |-> "", Nonce |-> NoNonce, Signed |-> FALSE, ptr |-> 0]
NoSend == [pc |-> "none", key |-> "", network |-> "", from |-> "", n |-> NoNonce,
           nonce |-> NoNonce, signer |-> "", tx |-> NoTx, ret |-> NoTx, err |-> "nil"]
NoBefore == [call |-> 0, nonces |-> << >>, txStore |-> << >>, signedBy |-> {}, broadcastBy |-> {}]

NewBuilder ==
    /\ signers = {}
    /\ nonces = [f \in Senders |-> 0]
    /\ nonceMu = 0
    /\ txStore = [k \in Keys |-> NoTx]
    /\ calls = [c \in Calls |-> NoSend]
    /\ signedBy = {} /\ broadcastBy = {}
    /\ before = NoBefore

InFlight(c) == calls[c].pc \notin {"none", "done"}
NoneInFlight == \A c \in Calls : ~InFlight(c)

\* RegisterSigner writes the map that Send reads without a lock: a caller
\* registers while no Send runs
RegisterSigner(network) ==
    /\ NoneInFlight
    /\ network \notin signers
    /\ signers' = signers \cup {network}
    /\ UNCHANGED <<notBuilder, nonces, nonceMu, txStore, calls, signedBy, broadcastBy, before>>

\* a caller invokes Send; `alone`: the caller runs one Send at a time
SendBegin(c, key, network, from, alone) ==
    /\ calls[c].pc = "none"
    /\ \A d \in 1..(c - 1) : calls[d].pc # "none"
    /\ alone => NoneInFlight
    /\ calls' = [calls EXCEPT ![c] = [NoSend EXCEPT !.pc = "get", !.key = key,
                                                   !.network = network, !.from = from]]
    /\ before' = IF alone
                 THEN [call |-> c, nonces |-> nonces, txStore |-> txStore,
                       signedBy |-> signedBy, broadcastBy |-> broadcastBy]
                 ELSE before
    /\ UNCHANGED <<notBuilder, signers, nonces, nonceMu, txStore, signedBy, broadcastBy>>

Send_begin(c, key, network, from) == SendBegin(c, key, network, from, FALSE)

Send_begin_alone(c, key, network, from) == SendBegin(c, key, network, from, TRUE)

\* Send L67-77: txStore.Get and the idempotency check
SendGet(c, checks) ==
    /\ calls[c].pc = "get"
    /\ LET existing == txStore[calls[c].key] IN
       calls' = IF checks /\ existing # NoTx
                THEN [calls EXCEPT ![c].pc = "done", ![c].ret = existing]
                ELSE [calls EXCEPT ![c].pc = "lock"]
    /\ UNCHANGED <<notBuilder, signers, nonces, nonceMu, txStore, signedBy, broadcastBy, before>>

\* faulty variant: the stored transaction is not looked at
Send_Get_unchecked(c) == SendGet(c, FALSE)

Send_Get(c) == SendGet(c, TRUE)

\* GetAndIncrement L22-24: s.mu.Lock(), n := s.nonces[address]
GetAndIncrementLock(c, excludes) ==
    /\ calls[c].pc = "lock"
    /\ excludes => nonceMu = 0
    /\ nonceMu' = c
    /\ calls' = [calls EXCEPT ![c].pc = "locked", ![c].n = nonces[calls[c].from]]
    /\ UNCHANGED <<notBuilder, signers, nonces, txStore, signedBy, broadcastBy, before>>

\* faulty variant: the lock excludes nobody
GetAndIncrement_Lock_shared(c) == GetAndIncrementLock(c, FALSE)

GetAndIncrement_Lock(c) == GetAndIncrementLock(c, TRUE)

\* GetAndIncrement L25-26 and the deferred Unlock: s.nonces[address] = n + 1, return n
GetAndIncrement_Unlock(c) ==
    /\ calls[c].pc = "locked"
    /\ nonces' = [nonces EXCEPT ![calls[c].from] = calls[c].n + 1]
    /\ nonceMu' = 0
    /\ calls' = [calls EXCEPT ![c].pc = "lookup", ![c].nonce = calls[c].n]
    /\ UNCHANGED <<notBuilder, signers, txStore, signedBy, broadcastBy, before>>

\* Send L86-108: the transaction is built and the signer looked up
SendLookup(c, checks) ==
    /\ calls[c].pc = "lookup"
    /\ LET tx == [Network |-> calls[c].network, From |-> calls[c].from,
                  Nonce |-> calls[c].nonce, Signed |-> FALSE, ptr |-> c]
           ok == calls[c].network \in signers
       IN calls' = IF checks /\ ~ok
                   THEN [calls EXCEPT ![c].pc = "done", ![c].tx = tx,
                                      ![c].signer = "missing", ![c].err = "no signer"]
                   ELSE [calls EXCEPT ![c].pc = "sign", ![c].tx = tx,
                                      ![c].signer = IF ok THEN "found" ELSE "missing"]
    /\ UNCHANGED <<notBuilder, signers, nonces, nonceMu, txStore, signedBy, broadcastBy, before>>

\* faulty variant: Send goes on without a signer
Send_lookup_unchecked(c) == SendLookup(c, FALSE)

Send_lookup(c) == SendLookup(c, TRUE)

\* Send L110-113: signer.Sign marks the transaction signed, or fails
Send_Sign(c, ok) ==
    /\ calls[c].pc = "sign"
    /\ signedBy' = signedBy \cup {c}
    /\ calls' = IF ok
                THEN [calls EXCEPT ![c].pc = "broadcast", ![c].tx.Signed = TRUE]
                ELSE [calls EXCEPT ![c].pc = "done", ![c].err = "sign"]
    /\ UNCHANGED <<notBuilder, signers, nonces, nonceMu, txStore, broadcastBy, before>>

\* Send L116-118: broadcastWithRetry; broadcast (L166-176) returns nil, so the
\* first attempt succeeds
Send_broadcast(c) ==
    /\ calls[c].pc = "broadcast"
    /\ broadcastBy' = broadcastBy \cup {c}
    /\ calls' = [calls EXCEPT ![c].pc = "put"]
    /\ UNCHANGED <<notBuilder, signers, nonces, nonceMu, txStore, signedBy, before>>

\* Send L121-125: txStore.Put, return signed
Send_Put(c) ==
    /\ calls[c].pc = "put"
    /\ txStore' = [txStore EXCEPT ![calls[c].key] = calls[c].tx]
    /\ calls' = [calls EXCEPT ![c].pc = "done", ![c].ret = calls[c].tx]
    /\ UNCHANGED <<notBuilder, signers, nonces, nonceMu, signedBy, broadcastBy, before>>

SendSteps ==
    \/ \E c \in Calls : Send_Get(c)
    \/ \E c \in Calls : GetAndIncrement_Lock(c)
    \/ \E c \in Calls : GetAndIncrement_Unlock(c)
    \/ \E c \in Calls : Send_lookup(c)
    \/ \E c \in Calls, ok \in BOOLEAN : Send_Sign(c, ok)
    \/ \E c \in Calls : Send_broadcast(c)
    \/ \E c \in Calls : Send_Put(c)

\* ----- broadcastWithRetry (tx/builder.go L135-164) -----
\* broadcast stands for the call to the network (L166-176 names the RPCs it
\* makes in production); here it may answer an error.  The context may be
\* cancelled at any moment.
MaxConfiguredRetries == 4
DefaultMaxRetries == 3
BroadcastErrs == {"timeout", "rejected"}
NoRetry == [pc |-> "none", configured |-> 0, maxRetries |-> 0, attempt |-> 0,
            attempts |-> 0, answer |-> "none", lastErr |-> "nil", ctxDone |-> FALSE,
            ret |-> "none", wraps |-> "nil", stored |-> FALSE]

\* faulty variant: MaxRetries is used as configured
MaxRetries_nodefault(configuredRetries) == configuredRetries

\* NewBuilder L33-35
MaxRetries(configuredRetries) ==
    IF configuredRetries <= 0 THEN DefaultMaxRetries ELSE configuredRetries

\* L138 and L163: the loop test for `attempt`; after the loop the error that
\* wraps lastErr
RetryLoop(r, attempt) ==
    IF attempt <= r.maxRetries
    THEN [r EXCEPT !.pc = "attempt", !.attempt = attempt]
    ELSE [r EXCEPT !.pc = "returned", !.attempt = attempt,
                   !.ret = "all attempts failed", !.wraps = r.lastErr]

\* Send L116 calls broadcastWithRetry of a Builder made with MaxRetries `c`
Retry_begin(c) ==
    /\ retry.pc = "none"
    /\ retry' = RetryLoop([retry EXCEPT !.configured = c, !.maxRetries = MaxRetries(c)], 1)
    /\ UNCHANGED notRetry

\* L139-147: one broadcast; nil returns nil, an error is kept in lastErr
Retry_broadcast(err) ==
    /\ retry.pc = "attempt"
    /\ retry' = IF err = "nil"
                THEN [retry EXCEPT !.attempts = @ + 1, !.answer = err,
                                   !.pc = "returned", !.ret = "nil"]
                ELSE [retry EXCEPT !.attempts = @ + 1, !.answer = err,
                                   !.pc = "backoff", !.lastErr = err]
    /\ UNCHANGED notRetry

\* L157-158: the backoff has elapsed with the context not cancelled
Retry_backoff_elapsed ==
    /\ retry.pc = "backoff"
    /\ ~retry.ctxDone
    /\ retry' = RetryLoop(retry, retry.attempt + 1)
    /\ UNCHANGED notRetry

\* L159-160: the context is cancelled before the backoff has elapsed
Retry_backoff_ctxDone ==
    /\ retry.pc = "backoff"
    /\ retry.ctxDone
    /\ retry' = [retry EXCEPT !.pc = "returned", !.ret = "context canceled"]
    /\ UNCHANGED notRetry

\* the owner of the context cancels it
Retry_cancel ==
    /\ retry.pc \in {"attempt", "backoff"}
    /\ ~retry.ctxDone
    /\ retry' = [retry EXCEPT !.ctxDone = TRUE]
    /\ UNCHANGED notRetry

\* Send L116-125: an error is returned, nil goes on to txStore.Put
Retry_Send_return ==
    /\ retry.pc = "returned"
    /\ retry' = [retry EXCEPT !.pc = "sent", !.stored = (retry.ret = "nil")]
    /\ UNCHANGED notRetry

NextRetry ==
    \/ \E c \in -1..MaxConfiguredRetries : Retry_begin(c)
    \/ \E err \in BroadcastErrs \cup {"nil"} : Retry_broadcast(err)
    \/ Retry_backoff_elapsed
    \/ Retry_backoff_ctxDone
    \/ Retry_cancel
    \/ Retry_Send_return

\* ----- specifications -----
NoLsnCall == [n |-> 0, op |-> "", address |-> "", storeErr |-> "nil", ret |-> "nil",
              cursor |-> 0, inFlight |-> FALSE, at |-> 0]

\* a newly constructed engine, its depth configured as one of `depths`, over a
\* source that serves the block numbers `blocks`
InitWith(depths, blocks) ==
    /\ configured \in depths /\ cfg = NewPollingListener(configured)
    /\ lsnCall = NoLsnCall
    /\ eventsCloses = 0 /\ doneCloses = 0
    /\ retry = NoRetry
    /\ head = 0 /\ ver = [n \in blocks |-> 0] /\ rewrites = 0 /\ watch = {}
    /\ lastBlock = 0 /\ blockHashes = EmptyMap /\ pendingEvents = EmptyMap
    /\ events = << >> /\ eventsClosed = FALSE /\ done = FALSE
    /\ cancel = FALSE /\ ctxDone = FALSE
    /\ latest = 0 /\ num = 0 /\ block = NoBlock /\ addrSet = {} /\ txi = 1
    /\ blockNum = 0 /\ upTo = 0 /\ evi = 1
    /\ stopPc = "none"
    /\ hist = << >> /\ expected = {} /\ invalidated = {} /\ cycleStart = 0
    /\ pollResult = "none" /\ failedAt = 0 /\ reorgOf = NoReorg /\ rewinds = 0
    /\ lateTicks = 0
    /\ NewManager
    /\ NewBuilder

InitCommon == InitWith(1..MaxDepth, Blocks)

\* the engine as the program runs it: Start, the poll loop, Stop
Init == InitCommon /\ pc = "new"

Environment ==
    \/ Source_Grow
    \/ \E a \in Addrs : WatchAddress(a)
    \/ \E a \in Addrs : UnwatchAddress(a)
    \/ Recv

PollSteps ==
    \/ poll_LatestBlockNumber
    \/ processBlock_GetBlock
    \/ processBlock_List
    \/ processBlock_emit
    \/ checkConfirmations_emit
    \/ pollLoop_next

PollFailures ==
    \/ poll_LatestBlockNumberErr
    \/ processBlock_GetBlockErr
    \/ processBlock_ListErr

PollCycle == PollSteps \/ PollFailures

Next ==
    \/ Environment
    \/ PollCycle
    \/ Start
    \/ Stop_cancel
    \/ Stop_close
    \/ pollLoop_ctxDone
    \/ processBlock_ctxDone
    \/ checkConfirmations_ctxDone

Spec == Init /\ [][Next]_vars

\* the engine as TestPollingListener_Reorg drives it: poll called directly with
\* a context that is never cancelled, a source that replaces blocks and drops
\* its head, the cursor rewound between two polls
InitReorg == InitCommon /\ pc = "idle"

NextReorg ==
    \/ Source_Grow
    \/ \E a \in Addrs : WatchAddress(a)
    \/ Recv
    \/ \E b \in Blocks : Source_Replace(b)
    \/ Source_Drop
    \/ PollSteps
    \/ handleReorg_emit
    \/ Rewind

SpecReorg == InitReorg /\ [][NextReorg]_vars

\* the same, with a context that its owner may cancel at any moment
NextLedger ==
    \/ Source_Grow
    \/ \E a \in Addrs : WatchAddress(a)
    \/ Recv
    \/ \E b \in Blocks : Source_Replace(b)
    \/ PollSteps
    \/ handleReorg_emit
    \/ Rewind
    \/ Context_cancel
    \/ handleReorg_ctxDone
    \/ processBlock_ctxDone
    \/ checkConfirmations_ctxDone

SpecLedger == InitReorg /\ [][NextLedger]_vars

\* poll driven directly, with failing source calls, a head that may drop below
\* the cursor and a cursor that may be rewound; the context is never cancelled
NextCursor ==
    \/ Source_Grow
    \/ Source_Drop
    \/ \E a \in Addrs : WatchAddress(a)
    \/ Recv
    \/ PollCycle
    \/ Rewind

SpecCursor == InitReorg /\ [][NextCursor]_vars

\* poll driven directly over a source whose head query and block fetch may fail
\* and whose head may drop; the Watch Set always answers, the context is never
\* cancelled, the cursor is never rewound
NextFetch ==
    \/ Source_Grow
    \/ Source_Drop
    \/ \E a \in Addrs : WatchAddress(a)
    \/ \E a \in Addrs : UnwatchAddress(a)
    \/ Recv
    \/ PollSteps
    \/ poll_LatestBlockNumberErr
    \/ processBlock_GetBlockErr

SpecFetch == InitReorg /\ [][NextFetch]_vars

\* The configured depth: an engine constructed with depth 0 (the default), with
\* the default given in full, or with another depth, polling a chain tall
\* enough for the default depth to confirm; nothing fails
Source_GrowTall == SourceGrow(MaxHeight)

ConfiguredDepths == {0, DefaultConfirmationDepth, DefaultConfirmationDepth - 1}

InitDepth == InitWith(ConfiguredDepths, 1..MaxHeight) /\ pc = "idle"

NextDepth ==
    \/ Source_GrowTall
    \/ \E a \in Addrs : WatchAddress(a)
    \/ Recv
    \/ PollSteps

SpecDepth == InitDepth /\ [][NextDepth]_vars

\* WatchAddress and UnwatchAddress as calls with their results, over any
\* WatchStore: the store's Add or Remove answers nil or an error (a store that
\* answers an error has left its set as it was), and the call returns `ret`
MaxLsnCalls == 3
WatchAddrs == {"a", "b", "c"}
StoreErrs == {"nil", "add failed", "remove failed"}

WatchStore_Add(set, address, err) == IF err = "nil" THEN set \cup {address} ELSE set
WatchStore_Remove(set, address, err) == IF err = "nil" THEN set \ {address} ELSE set

LsnCall(op, address, storeErr, ret) ==
    /\ ReadsWatch \/ BetweenCycles
    /\ lsnCall.n < MaxLsnCalls
    /\ watch' = IF op = "watch" THEN WatchStore_Add(watch, address, storeErr)
                                ELSE WatchStore_Remove(watch, address, storeErr)
    /\ lsnCall' = [n |-> lsnCall.n + 1, op |-> op, address |-> address,
                   storeErr |-> storeErr, ret |-> ret,
                   cursor |-> lastBlock, inFlight |-> ReadsWatch, at |-> Len(hist)]
    /\ UNCHANGED <<mgrVars, bldVars, retry, closeVars, configured, head, ver, rewrites, lsnVars, pollVars,
                   stopPc, ghostVars>>

\* faulty variant: an error of the store is replaced by one of the engine's own
Listener_WatchAddress_wrapping(address, storeErr) ==
    LsnCall("watch", address, storeErr, IF storeErr = "nil" THEN "nil" ELSE "watch failed")

Listener_WatchAddress(address, storeErr) == LsnCall("watch", address, storeErr, storeErr)

Listener_UnwatchAddress(address, storeErr) == LsnCall("unwatch", address, storeErr, storeErr)

NextWatch ==
    \/ \E a \in WatchAddrs, e \in StoreErrs : Listener_WatchAddress(a, e)
    \/ \E a \in WatchAddrs, e \in StoreErrs : Listener_UnwatchAddress(a, e)
    \/ Source_Grow
    \/ Recv
    \/ PollSteps

SpecWatch == InitReorg /\ [][NextWatch]_vars

\* calls that the store answers without an error, over a source that replaces
\* blocks, with a cursor that may be rewound
NextUnwatch ==
    \/ \E a \in Addrs : Listener_WatchAddress(a, "nil")
    \/ \E a \in Addrs : Listener_UnwatchAddress(a, "nil")
    \/ Source_Grow
    \/ Recv
    \/ PollSteps
    \/ \E b \in Blocks : Source_Replace(b)
    \/ handleReorg_emit
    \/ Rewind

SpecUnwatch == InitReorg /\ [][NextUnwatch]_vars

\* The Builder under callers that run Send concurrently, and under a caller
\* that runs one Send at a time
NextBuilder ==
    \/ \E n \in Networks : RegisterSigner(n)
    \/ \E c \in Calls, k \in Keys, n \in Networks, f \in Senders : Send_begin(c, k, n, f)
    \/ SendSteps

SpecBuilder == Init /\ [][NextBuilder]_vars

NextBuilderSeq ==
    \/ \E n \in Networks : RegisterSigner(n)
    \/ \E c \in Calls, k \in Keys, n \in Networks, f \in Senders :
          Send_begin_alone(c, k, n, f)
    \/ SendSteps

SpecBuilderSeq == Init /\ [][NextBuilderSeq]_vars

\* The engine under callers that may call Stop before Start, and Stop a second
\* time after Stop has returned
NextLife ==
    \/ Next
    \/ Stop_unstarted
    \/ Stop_second

SpecLife == Init /\ [][NextLife]_vars

SpecRetry == Init /\ [][NextRetry]_vars

\* The Manager with its engines: registration, StartAll, the draining
\* goroutines, StopAll and WatchAddress; the engines push on their own.
NextManager ==
    \/ \E n \in Networks : RegisterListener(n)
    \/ \E n \in Networks : \E a \in Addrs : Manager_WatchAddress(n, a)
    \/ StartAll_begin
    \/ \E n \in Networks : StartAll_Start(n)
    \/ StartAll_return
    \/ \E e \in Engines : Engine_push(e)
    \/ \E e \in Engines : Drain_handle(e)
    \/ \E e \in Engines : Drain_exit(e)
    \/ StopAll_begin
    \/ \E n \in Networks : StopAll_Stop(n)
    \/ StopAll_return

SpecManager == Init /\ [][NextManager]_vars

\* Spec with its scheduling: the poll goroutine and the caller of Stop keep
\* taking the steps they can take; the reader of the channel need not read.
\* Go's select picks among its ready cases at random, so a cancelled pollLoop
\* picks ctx.Done after finitely many ticks (MaxLateTicks).
Goroutine ==
    \/ PollCycle
    \/ pollLoop_ctxDone
    \/ processBlock_ctxDone
    \/ checkConfirmations_ctxDone

SpecLive == Spec /\ WF_vars(Goroutine) /\ WF_vars(Stop_close)

\* the same scheduling for the callers of SpecLife
SpecLifeLive == SpecLife /\ WF_vars(Goroutine) /\ WF_vars(Stop_close)

\* ----- properties -----
IsFresh(e) == ~e.Confirmed /\ ~e.Reorged
SameTx(e, f) == e.BlockNumber = f.BlockNumber /\ e.TxHash = f.TxHash
Confirm(e) == [e EXCEPT !.Confirmed = TRUE]
Retract(e) == [e EXCEPT !.Reorged = TRUE, !.Confirmed = FALSE]

\* positions in the history of the events of transaction h of block b with the
\* given flags
Emitted(b, h, c, r) ==
    {i \in DOMAIN hist : /\ hist[i].BlockNumber = b /\ hist[i].TxHash = h
                         /\ hist[i].Confirmed = c /\ hist[i].Reorged = r}

\* poll has returned nil to its caller
CycleCompleted == pc = "returned" /\ pollResult = "nil"

\* some event of the ledger was never accepted by the channel
AbandonedPush ==
    \E b \in DOMAIN pendingEvents : \E k \in DOMAIN pendingEvents[b] :
        \A i \in DOMAIN hist : hist[i] # pendingEvents[b][k]

\* C1 (Spec; no reorg happens there): a transaction of block B that matched the
\* Watch Set when B was processed gets at most one unconfirmed and at most one
\* confirmed event; once a cycle has completed without cancellation its
\* unconfirmed event has been emitted; a confirmed event comes after the
\* unconfirmed event of the same transaction and only when the head has reached
\* B + confirmationDepth.
C1_MonotonicConfirmation ==
    /\ \A p \in expected :
         /\ Cardinality(Emitted(p.BlockNumber, p.TxHash, FALSE, FALSE)) <= 1
         /\ Cardinality(Emitted(p.BlockNumber, p.TxHash, TRUE, FALSE)) <= 1
         /\ (CycleCompleted /\ ~ctxDone) =>
                Emitted(p.BlockNumber, p.TxHash, FALSE, FALSE) # {}
    /\ \A j \in DOMAIN hist :
         hist[j].Confirmed =>
            /\ \E i \in 1..(j - 1) : IsFresh(hist[i]) /\ SameTx(hist[i], hist[j])
            /\ head >= hist[j].BlockNumber + cfg

\* C2 (SpecReorg): without a rewind of the cursor, an event that was pending for
\* a block >= B when the source replaced the processed block B is never emitted
\* as confirmed (a confirmed event deletes its ledger entry, so no reorged
\* event can follow it).
C2_ReorgRetraction ==
    rewinds = 0 =>
        \A e \in invalidated : Emitted(e.BlockNumber, e.TxHash, TRUE, FALSE) = {}

\* the terminal versions of the events of a ledger entry
Terminal(evs, conf) ==
    [i \in DOMAIN evs |-> IF conf THEN Confirm(evs[i]) ELSE Retract(evs[i])]

C3_Step ==
    \A b \in DOMAIN pendingEvents :
        LET evs == pendingEvents[b]
            n == Len(evs)
        IN  IF b \in DOMAIN pendingEvents'
            THEN /\ Len(pendingEvents'[b]) >= n
                 /\ SubSeq(pendingEvents'[b], 1, n) = evs
            ELSE /\ Len(hist') > Len(hist)
                 /\ Len(hist') >= n
                 /\ \E conf \in BOOLEAN :
                       SubSeq(hist', Len(hist') - n + 1, Len(hist')) = Terminal(evs, conf)

\* C3 (SpecLedger): in every step, a ledger entry either stays with all its
\* events (it may grow at its end), or it is removed by a step that pushes an
\* event and after which the last events of the history are the terminal
\* versions (all confirmed, or all reorged) of all the entry's events, in order.
C3_NoSilentDrop == [][C3_Step]_vars

\* an entry of two events has just been removed by the push of the second
\* reorged event, after the context was cancelled
C3_Witness ==
    /\ ctxDone
    /\ Len(hist) >= 2
    /\ LET e == hist[Len(hist)]
           d == hist[Len(hist) - 1]
       IN  /\ e.Reorged /\ d.Reorged
           /\ e.BlockNumber = d.BlockNumber
           /\ e.BlockNumber \notin DOMAIN pendingEvents

\* the event at position i was emitted unconfirmed and no terminal event of its
\* transaction was emitted after it
Unterminated(i) ==
    /\ IsFresh(hist[i])
    /\ \A j \in (i + 1)..Len(hist) : ~(SameTx(hist[j], hist[i]) /\ ~IsFresh(hist[j]))

InEntry(e, b) ==
    b \in DOMAIN pendingEvents /\ \E k \in DOMAIN pendingEvents[b] : pendingEvents[b][k] = e

\* C4 (SpecLedger): every event emitted unconfirmed that has had no terminal
\* event since is in the ledger entry keyed by its block number and in no other
\* entry.
C4_LedgerInvariant ==
    \A i \in DOMAIN hist :
        Unterminated(i) =>
            \A b \in DOMAIN pendingEvents \cup {hist[i].BlockNumber} :
                InEntry(hist[i], b) <=> b = hist[i].BlockNumber

\* an unterminated event next to a retracted one, with the context cancelled
C4_Witness ==
    /\ ctxDone
    /\ \E i, j \in DOMAIN hist : Unterminated(i) /\ hist[j].Reorged

\* C5 (SpecLedger): while and after block N is processed with a fetched hash
\* that differs from the stored one, every fresh event of block N emitted since
\* is preceded by the reorged event of every event that was pending for N and
\* had been emitted.
C5_ReorgBeforeFresh ==
    reorgOf.block # 0 =>
        \A j \in (reorgOf.at + 1)..Len(hist) :
            (IsFresh(hist[j]) /\ hist[j].BlockNumber = reorgOf.block) =>
                \A k \in DOMAIN reorgOf.pending :
                    (\E i \in 1..reorgOf.at : hist[i] = reorgOf.pending[k]) =>
                        \E i \in (reorgOf.at + 1)..(j - 1) :
                            hist[i] = Retract(reorgOf.pending[k])

\* C6 as stated (Spec): when a cycle ends because LatestBlockNumber or GetBlock
\* failed, the cursor equals the cursor at the start of the cycle.
C6_Original ==
    (pc = "returned" /\ pollResult \in {"latest", "getblock"}) => lastBlock = cycleStart

\* C6 amended (Spec): a failed LatestBlockNumber leaves the cursor where it was;
\* a failed GetBlock(k) leaves it at k - 1, never below the cursor at the start
\* of the cycle; and every fetch is for the block right after the cursor, so
\* the next poll starts at k.
C6_FailureLeavesCursorBeforeFailedBlock ==
    /\ (pc = "returned" /\ pollResult = "latest") => lastBlock = cycleStart
    /\ (pc = "returned" /\ pollResult = "getblock") =>
          lastBlock = failedAt - 1 /\ cycleStart <= lastBlock
    /\ pc = "getblock" => num = lastBlock + 1

\* a cycle that processed a block and then failed to fetch the next one
C6_Witness ==
    pc = "returned" /\ pollResult = "getblock" /\ lastBlock > cycleStart

C7_Step ==
    stopPc' = "returned" =>
        /\ eventsClosed'
        /\ pc' = "exited"
        /\ stopPc = "returned" => (hist' = hist /\ Len(events') <= Len(events))

\* C7 (Spec): once Stop has returned the channel is closed and the poll
\* goroutine has exited, and from then on no event is pushed: the buffer only
\* shrinks, so a reader that drains it finds the closed channel empty.
C7_CleanShutdown == [][C7_Step]_vars

\* Stop has returned, events were emitted and the reader has drained them
C7_Witness ==
    stopPc = "returned" /\ hist # << >> /\ events = << >>

\* C8 (Spec): the channel is closed only when the poll goroutine has exited and
\* signalled it; a closed channel never meets a goroutine that can push.
C8_ShutdownOrdering ==
    eventsClosed => (pc = "exited" /\ done /\ ~Pushes)

\* the channel was closed after a stop that arrived in the middle of a push
C8_Witness ==
    eventsClosed /\ AbandonedPush

\* the poll goroutine stands at a push and the channel is full
Blocked == Pushes /\ Len(events) = EventsCap

\* C9 (SpecLive): when Stop has cancelled the context while the poll goroutine
\* stands at a push into the full channel, Stop eventually returns, whether or
\* not anybody reads the channel.
C9_CancellableBackpressure ==
    (stopPc = "wait" /\ Blocked) ~> (stopPc = "returned")

\* Stop has returned, the channel is still full and a push was abandoned
C9_Witness ==
    stopPc = "returned" /\ Len(events) = EventsCap /\ AbandonedPush

C11_Step ==
    (pc = "sweep" /\ Len(hist') > Len(hist)) =>
        hist'[Len(hist')].BlockNumber = Min(Eligible(pendingEvents, latest))

\* C11 (Spec): every push of a confirmation sweep is for the lowest block number
\* that is still eligible in the ledger; as a confirmed entry is deleted, this
\* is the same as the confirmed events of one sweep coming in ascending
\* block-number order.
C11_AscendingConfirmationOrder == [][C11_Step]_vars

\* C12 (Spec; every block is processed once there, so a transaction becomes
\* pending at most once): no transaction has two terminal events.
C12_TerminalExclusive ==
    \A i, j \in DOMAIN hist :
        (i < j /\ SameTx(hist[i], hist[j])) => (IsFresh(hist[i]) \/ IsFresh(hist[j]))

\* C13 (Spec): every event ever pushed, and every event of the ledger, is for a
\* transaction that matched the Watch Set listed when its block was processed.
C13_WatchScoping ==
    /\ \A i \in DOMAIN hist :
         [BlockNumber |-> hist[i].BlockNumber, TxHash |-> hist[i].TxHash] \in expected
    /\ \A b \in DOMAIN pendingEvents : \A k \in DOMAIN pendingEvents[b] :
         [BlockNumber |-> b, TxHash |-> pendingEvents[b][k].TxHash] \in expected

\* block 1 was processed while "a" was not watched, so its transactions to and
\* from "a" have no event, and a later block has produced an event
C13_Witness ==
    /\ lastBlock >= 2
    /\ \A p \in expected : p.BlockNumber # 1
    /\ \E i \in DOMAIN hist : hist[i].BlockNumber >= 2

C14_Step ==
    /\ rewinds' = rewinds => lastBlock' >= lastBlock
    /\ lastBlock' > lastBlock => (lastBlock' = lastBlock + 1 /\ lastBlock' = num)

\* C14 (SpecCursor): in every step other than a rewind the cursor does not
\* decrease, and a step that moves it moves it to the next block number, the
\* one being processed.
C14_CursorMonotonic == [][C14_Step]_vars

\* a cycle has completed while the head was below the cursor, with no rewind
C14_Witness ==
    CycleCompleted /\ latest < lastBlock /\ rewinds = 0

\* ----- the Manager's claims -----
HandledEvents(e) == [i \in DOMAIN handled[e] |-> handled[e][i].event]

Occurrences(q, k) == Cardinality({i \in DOMAIN q : q[i] = k})

\* C15 (SpecManager): every event an engine pushed into its channel is either
\* still buffered or was passed to the handler, and never both nor twice; when
\* the draining goroutine has ended, closing included, every pushed event was
\* passed to the handler exactly once.
C15_NoLossNoDuplication ==
    \A e \in Engines : \A k \in 1..engPushed[e] :
        /\ Occurrences(HandledEvents(e), k) + Occurrences(engEvents[e], k) = 1
        /\ drainPc[e] = "done" => Occurrences(HandledEvents(e), k) = 1

\* StopAll has returned, an engine's goroutine has drained its channel to the
\* end, and it handled an event that was still buffered at the close
C15_Witness ==
    /\ mgrPc = "stopped"
    /\ \E e \in Engines :
         /\ drainPc[e] = "done"
         /\ Len(handled[e]) = MaxPushes
         /\ \E i \in DOMAIN handled[e] : handled[e][i].afterClose

\* C16 (SpecManager): per engine the handler's invocations are the engine's
\* pushes in push order, one invocation per event (the i-th invocation gets the
\* i-th event pushed).
C16_FanInOrder ==
    \A e \in Engines :
        /\ Len(handled[e]) <= engPushed[e]
        /\ \A i \in DOMAIN handled[e] : handled[e][i].event = i

\* two engines of different networks have each had all their events handled
C16_Witness ==
    \E n1, n2 \in Registered :
        /\ n1 # n2
        /\ Len(handled[listeners[n1]]) = MaxPushes
        /\ Len(handled[listeners[n2]]) = MaxPushes

\* C17 (SpecManager): once the handler has returned an error for an event of an
\* engine, that engine's draining goroutine ends only when the channel is
\* closed and empty, every pushed event having been passed to the handler.
C17_HandlerFailureIsolation ==
    \A e \in Engines :
        (\E i \in DOMAIN handled[e] : handled[e][i].err) =>
            /\ drainPc[e] # "none"
            /\ drainPc[e] = "done" =>
                 /\ engClosed[e] /\ engEvents[e] = << >>
                 /\ Len(handled[e]) = engPushed[e]

\* the handler failed for an event and a later event of the engine was handled
C17_Witness ==
    \E e \in Engines : \E i, j \in DOMAIN handled[e] :
        i < j /\ handled[e][i].err

\* C18 (SpecManager): when StopAll has returned, Stop was called for every
\* registered network, whether or not a Stop before it returned an error, and
\* every network whose Stop returned an error was visited and reported.
C18_StopAllVisitsEvery ==
    /\ mgrPc = "stopped" => stopVisited = Registered
    /\ stopErrs \subseteq stopVisited

\* StopAll has returned after the Stop of one of two engines returned an error
C18_Witness ==
    /\ mgrPc = "stopped"
    /\ Cardinality(Registered) = 2
    /\ Cardinality(stopErrs) = 1

\* C19 (SpecManager): once a Start has failed in StartAll, StartAll has
\* returned; the engine whose Start failed and the engines of the networks not
\* visited are not started and have no draining goroutine, then and later; the
\* engines started before have their draining goroutine and stay started as
\* long as StopAll is not called.
C19_PartialStart ==
    startAllErr # "" =>
        /\ mgrPc # "startAll"
        /\ startAllErr \notin startVisited
        /\ \A n \in Registered \ startVisited :
             engState[listeners[n]] = "new" /\ drainPc[listeners[n]] = "none"
        /\ \A n \in startVisited :
             /\ drainPc[listeners[n]] # "none"
             /\ mgrPc = "running" => engState[listeners[n]] = "started"

\* a Start failed after another engine was started, and the started engine's
\* goroutine has handled an event since
C19_Witness ==
    /\ startAllErr # ""
    /\ \E n \in startVisited : Len(handled[listeners[n]]) >= 1

C20_Step ==
    watchErr' # watchErr =>
        LET c == watchErr'
            l == lastRegistered[c.network]
        IN  IF l = NoEngine
            THEN c.err /\ engWatch' = engWatch
            ELSE ~c.err /\ engWatch' = [engWatch EXCEPT ![l] = @ \cup {c.address}]

\* C20 (SpecManager): a call of Manager.WatchAddress for a network nothing was
\* registered for returns an error and changes no Watch Set; any other call
\* returns nil and adds the address to the Watch Set of the engine registered
\* last for that network, the other Watch Sets staying as they were.
C20_WatchRouting == [][C20_Step]_vars

\* two engines were registered for one network, a call for that network
\* succeeded, and only the second engine's Watch Set has the address
C20_Witness ==
    /\ ~watchErr.err /\ watchErr.n >= 1
    /\ listeners[watchErr.network] = 2
    /\ \A n \in Networks \ {watchErr.network} : listeners[n] = NoEngine
    /\ engWatch[1] = {} /\ watchErr.address \in engWatch[2]

\* ----- the poll cycle, continued -----
\* this step fetches block num and begins its processing
Begins == pc = "getblock" /\ pc' \in {"list", "reorg"}

\* this step completes the processing of block num (processBlock returns nil)
Completes ==
    /\ pc \in {"list", "match"}
    /\ pc' \in {"getblock", "sweep", "returned"}
    /\ pollResult' \notin {"list", "ctx"}

C27_Step ==
    /\ Begins => num = lastBlock + 1
    /\ lastBlock' # lastBlock => (Begins /\ lastBlock' = num)
    /\ (pc \in {"list", "match"} /\ pc' \notin {"list", "match"}) => Completes
    /\ Completes => (num = lastBlock /\ (pc' = "getblock" => num' = num + 1))
    /\ (pc = "getblock" /\ pc' = "returned") =>
          (lastBlock' = lastBlock /\ lastBlock' = num - 1)
    /\ (pc = "idle" /\ pc' = "getblock") => num' = lastBlock + 1

\* C27 (SpecFetch): the block whose processing begins is the one right after
\* the cursor, and the cursor moves only there and then; a block whose
\* processing began is completed, and the loop goes on with the next number; a
\* failed fetch of block k ends the cycle with the cursor at k - 1, and a cycle
\* starts at the block after the cursor.  So the blocks completed are 1, 2, 3,
\* ... with none left out and none twice.
C27_NoBlockSkippedOrRepeated == [][C27_Step]_vars

\* the blocks up to k - 1 were completed in earlier cycles and a cycle has just
\* failed at its first fetch, that of block k
C27_Witness ==
    /\ pc = "returned" /\ pollResult = "getblock"
    /\ cycleStart >= 1 /\ failedAt = cycleStart + 1 /\ lastBlock = cycleStart

\* ----- handleReorg -----
RECURSIVE Flatten(_, _, _)
\* the events of the ledger entries for blocks from..to, in ascending block order
Flatten(pe, from, to) ==
    IF from > to THEN << >> ELSE Entry(pe, from) \o Flatten(pe, from + 1, to)

RetractAll(evs) == [i \in DOMAIN evs |-> Retract(evs[i])]

\* handleReorg has returned for the mismatch at block num, whose hash is stored
AfterReorg == pc = "list" /\ reorgOf.block # 0 /\ reorgOf.block = num

\* the ledger keys in [N, upTo] at the moment of the mismatch
InvalidationRange ==
    {k \in DOMAIN reorgOf.ledger : reorgOf.block <= k /\ k <= reorgOf.upTo}

C29_PendingInsideWindow ==
    (CycleCompleted /\ rewinds = 0) =>
        \A b \in DOMAIN pendingEvents :
            /\ latest - cfg < b
            /\ b <= lastBlock
            /\ b \in DOMAIN blockHashes

\* C30 (SpecReorg): as long as the cursor was never rewound, whenever a block is
\* about to be fetched its number is above the cursor, every stored hash is for
\* a block at or below the cursor, and so no hash is stored for the block
\* about to be fetched: nothing is there to compare the fetched hash with, and
\* handleReorg never runs.
C30_WindowBehindCursor ==
    rewinds = 0 =>
        /\ pc = "getblock" =>
             /\ num > lastBlock
             /\ \A k \in DOMAIN blockHashes : k <= lastBlock
             /\ num \notin DOMAIN blockHashes
        /\ pc # "reorg"

\* with no rewind, the source has replaced a block whose hash is stored, and the
\* engine is about to fetch the next block
C30_Witness ==
    /\ rewinds = 0
    /\ pc = "getblock"
    /\ \E k \in DOMAIN blockHashes : ver[k] > 0 /\ blockHashes[k] = <<k, 0>>

\* ----- NewPollingListener -----
\* the depth the claim prescribes for the configured one
PrescribedDepth ==
    IF configured = 0 THEN DefaultConfirmationDepth ELSE configured

C22_Step ==
    /\ (pc = "sweep" /\ Len(hist') > Len(hist)) =>
          latest >= hist'[Len(hist')].BlockNumber + PrescribedDepth
    /\ (pc' = "returned" /\ pollResult' = "nil") =>
          \A b \in DOMAIN pendingEvents' : latest' < b + PrescribedDepth

\* C22 (SpecDepth): an engine configured with depth 0 confirms as one configured
\* with depth 12, and any other with its configured depth: a confirmed event for
\* block B is pushed only when latest >= B + depth, and a cycle that returns
\* nil leaves no ledger entry with latest >= B + depth.
C22_DefaultDepth == [][C22_Step]_vars

\* an engine configured with depth 0 has confirmed block 1 at latest = 13 and
\* still holds a later block pending
C22_Witness ==
    /\ configured = 0
    /\ latest = 1 + DefaultConfirmationDepth
    /\ \E i \in DOMAIN hist : hist[i].Confirmed /\ hist[i].BlockNumber = 1
    /\ pendingEvents # EmptyMap

\* ----- WatchAddress, UnwatchAddress -----
C21_Step ==
    lsnCall'.n = lsnCall.n + 1 =>
        /\ lsnCall'.ret = lsnCall'.storeErr
        /\ (lsnCall'.ret = "nil" /\ lsnCall'.op = "watch") => lsnCall'.address \in watch'
        /\ (lsnCall'.ret = "nil" /\ lsnCall'.op = "unwatch") => lsnCall'.address \notin watch'
        /\ \A other \in WatchAddrs \ {lsnCall'.address} : other \in watch' <=> other \in watch

\* C21 (SpecWatch): WatchAddress and UnwatchAddress delegate to the watch store:
\* after a WatchAddress(a) that returns nil a is in the store's set, after an
\* UnwatchAddress(a) that returns nil it is not, every other address is in the
\* set after the call exactly if it was before, and the call returns the error
\* of the store's Add or Remove as it is.
C21_WatchDelegates == [][C21_Step]_vars

\* the store has failed a Remove of a watched address and the call has returned
\* the store's error, with a second address watched as well
C21_Witness ==
    /\ lsnCall.op = "unwatch" /\ lsnCall.storeErr = "remove failed"
    /\ lsnCall.ret = "remove failed"
    /\ lsnCall.address \in watch
    /\ watch \ {lsnCall.address} # {}

\* ----- Builder.Send -----
\* the latest Send of a one-at-a-time caller found a transaction stored under its key
RepeatedSend ==
    /\ before.call # 0
    /\ before.txStore[calls[before.call].key] # NoTx

\* C23 (SpecBuilderSeq): a Send whose idempotency key already has a stored
\* transaction returns that transaction without an error, and from its call to
\* its return the nonce counters, the set of Sign invocations, the set of
\* broadcasts and the transaction store stay as the call found them.
C23_SequentialIdempotency ==
    RepeatedSend =>
        /\ nonces = before.nonces
        /\ signedBy = before.signedBy
        /\ broadcastBy = before.broadcastBy
        /\ txStore = before.txStore
        /\ calls[before.call].pc = "done" =>
              /\ calls[before.call].ret = before.txStore[calls[before.call].key]
              /\ calls[before.call].err = "nil"

\* the second Send has returned the transaction the first one built and stored,
\* though its own request names another network and sender
C23_Witness ==
    /\ RepeatedSend
    /\ before.call = 2 /\ calls[2].pc = "done"
    /\ calls[2].ret.ptr = 1 /\ calls[2].ret.Signed
    /\ calls[2].network # calls[1].network /\ calls[2].from # calls[1].from

\* two Sends of the same request that have both returned without an error
SameRequestReturned(c1, c2) ==
    /\ c1 # c2
    /\ calls[c1].pc = "done" /\ calls[c2].pc = "done"
    /\ calls[c1].err = "nil" /\ calls[c2].err = "nil"
    /\ calls[c1].key = calls[c2].key
    /\ calls[c1].network = calls[c2].network /\ calls[c1].from = calls[c2].from

\* C24 (SpecBuilder): of two Sends that carry the same idempotency key, run
\* concurrently, at most one takes a nonce and at most one broadcasts, and both
\* return the same transaction.
C24_ConcurrentIdempotency ==
    \A c1, c2 \in Calls :
        SameRequestReturned(c1, c2) =>
            /\ calls[c1].ret = calls[c2].ret
            /\ ~(c1 \in broadcastBy /\ c2 \in broadcastBy)
            /\ calls[c1].nonce = NoNonce \/ calls[c2].nonce = NoNonce

\* ----- MemoryNonceStore.GetAndIncrement -----
\* the calls to which GetAndIncrement(f) has returned
Allocated(f) == {c \in Calls : calls[c].from = f /\ calls[c].nonce # NoNonce}

\* C25 (SpecBuilder): under any interleaving, the values GetAndIncrement has
\* returned for an address so far are exactly 0..k-1 for its k calls, none
\* twice; the counter of an address counts the calls for that address only; and
\* the transaction a Send builds carries the value returned to that Send.
C25_NonceAllocation ==
    \A f \in Senders :
        /\ {calls[c].nonce : c \in Allocated(f)} = 0..(Cardinality(Allocated(f)) - 1)
        /\ nonces[f] = Cardinality(Allocated(f))
        /\ \A c \in Allocated(f) :
              calls[c].tx # NoTx => calls[c].tx.Nonce = calls[c].nonce /\ calls[c].tx.From = f

\* three Sends from one address: one has returned its transaction with nonce 0,
\* one holds the mutex having read 1, one waits for the mutex; the other
\* address's counter is still 0
C25_Witness ==
    /\ \A c \in Calls : calls[c].from = "f1"
    /\ \E c1, c2, c3 \in Calls :
          /\ calls[c1].pc = "done" /\ calls[c1].ret.ptr = c1 /\ calls[c1].ret.Nonce = 0
          /\ calls[c2].pc = "locked" /\ calls[c2].n = 1
          /\ calls[c3].pc = "lock"
    /\ nonces["f2"] = 0

\* ----- Builder.Send without a signer -----
\* C26 (SpecBuilder): a Send that finds no signer registered for its network
\* returns the error "no signer" and no transaction, has invoked no Sign and
\* broadcast nothing, and no key of the transaction store holds its transaction.
C26_NoSigner ==
    \A c \in Calls :
        calls[c].signer = "missing" =>
            /\ c \notin signedBy /\ c \notin broadcastBy
            /\ \A k \in Keys : txStore[k].ptr # c
            /\ calls[c].pc = "done"
            /\ calls[c].err = "no signer" /\ calls[c].ret = NoTx

\* a Send has failed for want of a signer; the signer was registered afterwards
\* and a later Send with the same key and network built, broadcast and stored
\* its own transaction
C26_Witness ==
    \E c1, c2 \in Calls :
        /\ calls[c1].pc = "done" /\ calls[c1].signer = "missing"
        /\ calls[c2].pc = "done" /\ calls[c2].key = calls[c1].key
        /\ calls[c2].network = calls[c1].network
        /\ calls[c2].ret.ptr = c2 /\ c2 \in broadcastBy
        /\ txStore[calls[c1].key].ptr = c2

\* ----- processBlock on a block processed before -----
\* C31 (SpecReorg): while the source has replaced no block (every block that is
\* processed again has the hash it had), the ledger entry of a block holds each
\* transaction at most once, and the unconfirmed events accepted by the channel
\* hold each (block, transaction) at most once.
C31_NoDuplicatePending ==
    rewrites = 0 =>
        /\ \A b \in DOMAIN pendingEvents : \A i, j \in DOMAIN pendingEvents[b] :
              pendingEvents[b][i].TxHash = pendingEvents[b][j].TxHash => i = j
        /\ \A i, j \in DOMAIN hist :
              (IsFresh(hist[i]) /\ IsFresh(hist[j]) /\ SameTx(hist[i], hist[j])) => i = j

\* ----- processBlock when watchStore.List fails -----
C32_Step ==
    (pc = "list" /\ pc' = "returned" /\ pollResult' = "list") => lastBlock' < num

\* C32 (Spec): when watchStore.List fails while block N is being processed, poll
\* returns with the cursor below N, so that the next poll, which starts at
\* cursor + 1, processes N again.
C32_ListFailureKeepsBlock == [][C32_Step]_vars

\* ----- Stop without Start, Stop after Stop -----
\* C33 (SpecLifeLive): a Stop called on an engine on which Start is never called
\* returns.
C33_StopTerminatesUnstarted ==
    (stopPc = "wait" /\ pc = "new") ~> (stopPc = "returned" \/ pc # "new")

\* C34 (SpecLife): over the calls of Start and Stop on one engine, Stop called a
\* second time included, close(l.events) runs at most once and close(l.done)
\* runs at most once.
C34_SingleClose == eventsCloses <= 1 /\ doneCloses <= 1

\* ----- StopAll and the draining goroutines -----
C35_Step ==
    mgrPc = "stopped" => handled' = handled

\* C35 (SpecManager): once StopAll has returned the handler is not invoked
\* again: every draining goroutine has handled what it is going to handle.
C35_QuiescenceAfterStopAll == [][C35_Step]_vars

\* ----- WatchAddress, UnwatchAddress and the events -----
\* the unconfirmed event at position i of the history has its terminal event
HasTerminal(i) ==
    \E j \in (i + 1)..Len(hist) :
        SameTx(hist[i], hist[j]) /\ (hist[j].Confirmed \/ hist[j].Reorged)

\* it is still in the ledger, not yet deep enough to be confirmed
WaitsForDepth(i) ==
    /\ hist[i].BlockNumber \in DOMAIN pendingEvents
    /\ \E k \in DOMAIN pendingEvents[hist[i].BlockNumber] :
          pendingEvents[hist[i].BlockNumber][k] = hist[i]
    /\ latest < hist[i].BlockNumber + cfg

\* whatever the Watch Set holds by now, after a completed cycle every
\* unconfirmed event has its terminal event or waits for its depth
TerminalWhateverWatched ==
    CycleCompleted =>
        \A i \in DOMAIN hist : IsFresh(hist[i]) => HasTerminal(i) \/ WaitsForDepth(i)

\* without a rewind, the unconfirmed events pushed since the last successful
\* WatchAddress(a) that touch a are for blocks above the cursor of that moment;
\* `inFlight`: or for the block that stood between L210 and L218 then
AddedLater(inFlight) ==
    (lsnCall.op = "watch" /\ lsnCall.ret = "nil" /\ rewinds = 0) =>
        \A j \in (lsnCall.at + 1)..Len(hist) :
            (IsFresh(hist[j]) /\ Matches(hist[j], {lsnCall.address})) =>
                \/ hist[j].BlockNumber > lsnCall.cursor
                \/ inFlight /\ lsnCall.inFlight /\ hist[j].BlockNumber = lsnCall.cursor

\* C36 as stated (SpecUnwatch): an event that became pending while its address
\* was watched gets its terminal event after the address was removed, and
\* adding an address produces no event for a block at or below the cursor.
C36_Original == TerminalWhateverWatched /\ AddedLater(FALSE)

\* C36 amended (SpecUnwatch): an event that became pending while its address
\* was watched gets its terminal event after the address was removed; and,
\* without a rewind, adding an address produces no event for a block below the
\* cursor, nor for the block at the cursor unless that block's processing had
\* assigned the cursor (L210) and not yet listed the Watch Set (L218).
C36_UnwatchKeepsPending == TerminalWhateverWatched /\ AddedLater(TRUE)

\* the address was removed, nothing is watched, and the confirmed event of an
\* event pushed before the removal was pushed after it
C36_Witness ==
    /\ lsnCall.op = "unwatch" /\ lsnCall.ret = "nil" /\ watch = {}
    /\ \E i \in 1..lsnCall.at : \E j \in (lsnCall.at + 1)..Len(hist) :
          IsFresh(hist[i]) /\ hist[j] = Confirm(hist[i])

\* ----- Builder.Send that fails -----
\* C37 (SpecBuilderSeq): when a Send has returned an error, the nonce counters
\* are as the Send found them, so that the next Send from the same address gets
\* the nonce the failed one had.
C37_FailedSendKeepsNonce ==
    (before.call # 0 /\ calls[before.call].pc = "done" /\ calls[before.call].err # "nil") =>
        nonces = before.nonces

\* ----- broadcastWithRetry -----
\* the number of attempts the claim prescribes for the configured MaxRetries
PrescribedRetries ==
    IF retry.configured <= 0 THEN 3 ELSE retry.configured

C38_Inv ==
    /\ retry.attempts <= PrescribedRetries
    /\ retry.ret = "all attempts failed" =>
          /\ retry.attempts = PrescribedRetries
          /\ retry.wraps = retry.answer /\ retry.answer \in BroadcastErrs
    /\ retry.ret = "nil" => retry.answer = "nil"
    /\ retry.stored => retry.ret = "nil" /\ retry.answer = "nil"

C38_Step ==
    /\ (retry'.attempts # retry.attempts /\ retry'.answer = "nil") =>
          retry'.pc = "returned" /\ retry'.ret = "nil"
    /\ retry.pc \in {"returned", "sent"} =>
          retry'.attempts = retry.attempts /\ retry'.ret = retry.ret
    /\ (retry.pc = "backoff" /\ retry.ctxDone /\ retry' # retry) =>
          /\ retry'.attempts = retry.attempts
          /\ retry'.pc = "returned" /\ retry'.ret = "context canceled"

\* C38 (SpecRetry): broadcastWithRetry broadcasts at most maxRetries times, 3
\* times at most when MaxRetries was configured <= 0; a broadcast that answers
\* nil makes it return nil at once; after maxRetries failed broadcasts it
\* returns an error that wraps the last failure; once the context is cancelled
\* during a backoff it returns the context's error without another broadcast;
\* and Send stores the transaction only after broadcastWithRetry returned nil.
C38_BoundedRetry == []C38_Inv /\ [][C38_Step]_vars

\* MaxRetries configured 0: three broadcasts have failed, the error wraps the
\* last failure, and Send has returned without storing
C38_Witness ==
    /\ retry.configured = 0 /\ retry.attempts = 3
    /\ retry.ret = "all attempts failed" /\ retry.wraps = "rejected"
    /\ retry.pc = "sent" /\ ~retry.stored

====
